---- MODULE Spec2Model ----
(***************************************************************************)
(* Model of the audio-enhancer conversion scripts:                         *)
(*   scripts/convert_audio_to_wav.py    Stage 1, the Normalizer            *)
(*   scripts/convert_wav_to_format.py   Stage 2, the Encoder               *)
(*   scripts/helpers/metadata.py        the metadata helpers               *)
(*                                                                         *)
(* An optional value (Python's None or a value, a file that is absent or   *)
(* has content) is a sequence of length 0 or 1.  A Python string whose     *)
(* characters matter (a tag value) is a sequence of one-character strings. *)
(***************************************************************************)
EXTENDS Integers, Sequences, FiniteSets, TLC

VARIABLES
    pc,             \* position of the running script
    prog,           \* which script runs or ran last: "none", "normalizer", "encoder"
    runs,           \* number of script runs started so far
    wavDir,         \* the intermediate directory: wav file name -> source it was made from
    sidecarDir,     \* the intermediate directory: stem -> content of <stem>.metadata.json
    outputDir,      \* Stage 2 output directory: set of file names present
    audio_files,    \* Stage 1: the candidate list
    wav_files,      \* Stage 2: the candidate list
    format,         \* Stage 2: the requested target format
    i,              \* index of the candidate the loop is at
    success_count,  \* the scripts' success counter
    metadata,       \* the record held for the current candidate (None = <<>>)
    output_path,    \* Stage 2: the output path resolved for the current candidate
    outcome,        \* terminal outcome of every candidate reached so far
    log,            \* calls made to the outside world for the current candidate, in order
    tool_missing,   \* whether a transcoder call of this run found no transcoder
    ending,         \* how the run ended
    status,         \* process exit status of the last run
    record,         \* build_metadata_args: the metadata argument (None = <<>>)
    original,       \* build_metadata_args: original_file_path (None = <<>>)
    args,           \* build_metadata_args: the returned argument list
    built           \* whether build_metadata_args has returned

pipeVars == <<pc, prog, runs, wavDir, sidecarDir, outputDir, audio_files, wav_files,
              format, i, success_count, metadata, output_path, outcome, log,
              tool_missing, ending, status>>
metaVars == <<record, original, args, built>>
vars == <<pipeVars, metaVars>>

(***************************************************************************)
(* Bounds                                                                  *)
(***************************************************************************)
MaxFiles == 2
MaxRuns == 3
MaxTags == 2

None == <<>>
Some(v) == <<v>>

(***************************************************************************)
(* The directories the scripts are run on                                  *)
(***************************************************************************)
Stems == {"a", "a_1"}

\* Entries a source directory may hold.
Entry(stem, ext, isFile) == [stem |-> stem, ext |-> ext, is_file |-> isFile]
SourceEntries ==
    { Entry("a", ".mp3", TRUE), Entry("a", ".flac", TRUE), Entry("a_1", ".WAV", TRUE),
      Entry("a_1", ".txt", TRUE), Entry("a_1", ".ogg", FALSE) }

\* str.lower() on the extensions that occur.
Lower(s) ==
    CASE s = ".WAV" -> ".wav"
      [] s = "FLAC" -> "flac"
      [] OTHER -> s

AUDIO_EXTENSIONS ==
    { ".mp3", ".m4a", ".aac", ".flac", ".ogg", ".wma", ".aiff", ".au", ".ra", ".3gp",
      ".amr", ".opus", ".wav" }

is_audio_file(f) ==
    IF ~f.is_file THEN FALSE
    ELSE IF Lower(f.ext) \in AUDIO_EXTENSIONS THEN TRUE
    ELSE FALSE

\* Sequences without repetition over S, of length at most n: a directory listing.
RECURSIVE Listings(_, _)
Listings(S, n) ==
    IF n = 0 THEN { <<>> }
    ELSE LET shorter == Listings(S, n - 1)
         IN shorter \cup { Append(l, e) : l \in { x \in shorter : Len(x) = n - 1 },
                                          e \in S }
Distinct(l) == \A p, q \in DOMAIN l : p # q => l[p] # l[q]
DirListings(S, n) == { l \in Listings(S, n) : Distinct(l) }

WavName(stem, ext) == [stem |-> stem, ext |-> ext]
WavNames == { WavName(s, e) : s \in Stems, e \in {".wav", ".WAV"} }

Exists(dir, name) == dir[name] # None

\* JSON documents: the prober's output as parsed, and what a sidecar holds.
Json(kind, src) == [json |-> kind, src |-> src]

Event(op, res) == [op |-> op, res |-> res]

(***************************************************************************)
(* Stage 1: convert_audio_to_wav.py                                        *)
(***************************************************************************)
CanStart == pc = "idle" /\ runs < MaxRuns

\* main() and the head of convert_audio_files_to_wav(): the directory check, the
\* candidate enumeration and the early return on an empty candidate list.
NormalizerStart(sourceExists, listing) ==
    /\ CanStart
    /\ prog' = "normalizer"
    /\ runs' = runs + 1
    /\ wav_files' = <<>>
    /\ format' = ""
    /\ i' = 1
    /\ success_count' = 0
    /\ metadata' = None
    /\ output_path' = None
    /\ outcome' = <<>>
    /\ log' = <<>>
    /\ tool_missing' = FALSE
    /\ IF ~sourceExists
       THEN /\ audio_files' = <<>>
            /\ pc' = "done"
            /\ ending' = "no_directory"
            /\ status' = 1
       ELSE LET found == SelectSeq(listing, is_audio_file)
            IN /\ audio_files' = found
               /\ IF found = <<>>
                  THEN /\ pc' = "done"
                       /\ ending' = "no_files"
                       /\ status' = 0
                  ELSE /\ pc' = "n_loop"
                       /\ ending' = "running"
                       /\ status' = 0
    /\ UNCHANGED <<wavDir, sidecarDir, outputDir, metaVars>>

\* The destination of the current Stage 1 candidate: <stem>.wav in the output directory.
output_file == WavName(audio_files[i].stem, ".wav")

\* A loop head that skips an existing destination without counting it.
NormalizerCheck_NoCount ==
    /\ pc = "n_loop"
    /\ i <= Len(audio_files)
    /\ IF Exists(wavDir, WavName(audio_files[i].stem, ".wav"))
       THEN /\ outcome' = Append(outcome, "Skipped")
            /\ i' = i + 1
            /\ pc' = "n_loop"
       ELSE /\ pc' = "n_extract"
            /\ UNCHANGED <<outcome, i>>
    /\ log' = <<>>
    /\ UNCHANGED <<prog, runs, wavDir, sidecarDir, outputDir, audio_files, wav_files,
                   format, success_count, metadata, output_path, tool_missing, ending,
                   status, metaVars>>

\* A loop head without the existence check: every candidate is converted again.
NormalizerCheck_NoSkip ==
    /\ pc = "n_loop"
    /\ i <= Len(audio_files)
    /\ pc' = "n_extract"
    /\ log' = <<>>
    /\ UNCHANGED <<prog, runs, wavDir, sidecarDir, outputDir, audio_files, wav_files,
                   format, i, success_count, metadata, output_path, outcome,
                   tool_missing, ending, status, metaVars>>

\* Loop head: the destination is computed and an existing destination is skipped.
NormalizerCheck ==
    /\ pc = "n_loop"
    /\ i <= Len(audio_files)
    /\ IF Exists(wavDir, output_file)
       THEN /\ success_count' = success_count + 1
            /\ outcome' = Append(outcome, "Skipped")
            /\ i' = i + 1
            /\ pc' = "n_loop"
       ELSE /\ pc' = "n_extract"
            /\ UNCHANGED <<success_count, outcome, i>>
    /\ log' = <<>>
    /\ UNCHANGED <<prog, runs, wavDir, sidecarDir, outputDir, audio_files, wav_files,
                   format, metadata, output_path, tool_missing, ending, status,
                   metaVars>>

\* What the prober can answer: exit status 0 with a JSON object, exit status 0 with
\* JSON that is no object, a non-zero exit status, output that is no JSON, or the
\* prober is not installed.
ProbeResults == {"object", "array", "nonzero", "bad_json", "not_found"}

\* extract_metadata(): the parsed output on success, None otherwise.
extract_metadata(input_file, res) ==
    IF res \in {"object", "array"} THEN Some(Json(res, input_file)) ELSE None

Extract ==
    /\ pc = "n_extract"
    /\ \E res \in ProbeResults :
          /\ metadata' = extract_metadata(audio_files[i], res)
          /\ log' = Append(log, Event("ffprobe", res))
    /\ pc' = "n_save"
    /\ UNCHANGED <<prog, runs, wavDir, sidecarDir, outputDir, audio_files, wav_files,
                   format, i, success_count, output_path, outcome, tool_missing,
                   ending, status, metaVars>>

\* What writing the sidecar can do: succeed, fail to open the file (nothing is
\* changed) or fail while dumping (the file is left truncated).
WriteResults == {"ok", "open_failed", "dump_failed"}

\* A save_metadata_file() that reports success without having written the file.
save_metadata_file_lost(md, stem, res) ==
    CASE res = "dump_failed" -> [sidecarDir EXCEPT ![stem] = Some(Json("truncated", md[1].src))]
      [] OTHER -> sidecarDir

\* save_metadata_file(): the sidecar directory after the call.
save_metadata_file(md, stem, res) ==
    CASE res = "ok" -> [sidecarDir EXCEPT ![stem] = md]
      [] res = "dump_failed" -> [sidecarDir EXCEPT ![stem] = Some(Json("truncated", md[1].src))]
      [] OTHER -> sidecarDir

Save ==
    /\ pc = "n_save"
    /\ IF metadata = None
       THEN UNCHANGED <<sidecarDir, log>>
       ELSE \E res \in WriteResults :
               /\ sidecarDir' = save_metadata_file(metadata, audio_files[i].stem, res)
               /\ log' = Append(log, Event("write_sidecar", res))
    /\ pc' = "n_process"
    /\ UNCHANGED <<prog, runs, wavDir, outputDir, audio_files, wav_files, format, i,
                   success_count, metadata, output_path, outcome, tool_missing,
                   ending, status, metaVars>>

\* move_wav_file(): shutil.copy2 succeeds or raises.
CopyResults == {"ok", "error"}
\* convert_to_wav(): ffmpeg exits 0, exits non-zero, or is not installed.
ConvertResults == {"ok", "nonzero", "not_found"}

\* The branch taken for a candidate: copy for a .wav input, transcode otherwise.
IsWavInput(f) == Lower(f.ext) = ".wav"

Process ==
    /\ pc = "n_process"
    /\ LET f == audio_files[i]
           op == IF IsWavInput(f) THEN "copy" ELSE "ffmpeg"
       IN \E res \in (IF IsWavInput(f) THEN CopyResults ELSE ConvertResults) :
             /\ log' = Append(log, Event(op, res))
             /\ tool_missing' = (tool_missing \/ res = "not_found")
             /\ IF res = "ok"
                THEN /\ wavDir' = [wavDir EXCEPT ![output_file] = Some(f)]
                     /\ success_count' = success_count + 1
                     /\ outcome' = Append(outcome,
                                          IF IsWavInput(f) THEN "Copied" ELSE "Converted")
                ELSE /\ outcome' = Append(outcome, "Failed")
                     /\ UNCHANGED <<wavDir, success_count>>
    /\ i' = i + 1
    /\ pc' = "n_loop"
    /\ UNCHANGED <<prog, runs, sidecarDir, outputDir, audio_files, wav_files, format,
                   metadata, output_path, ending, status, metaVars>>

\* The summary and the return value of convert_audio_files_to_wav(), which main()
\* hands to exit().
NormalizerFinish ==
    /\ pc = "n_loop"
    /\ i > Len(audio_files)
    /\ status' = IF success_count = 0 THEN 1 ELSE 0
    /\ ending' = "report"
    /\ pc' = "done"
    /\ UNCHANGED <<prog, runs, wavDir, sidecarDir, outputDir, audio_files, wav_files,
                   format, i, success_count, metadata, output_path, outcome, log,
                   tool_missing, metaVars>>

(***************************************************************************)
(* Stage 2: convert_wav_to_format.py                                       *)
(***************************************************************************)
Formats == {"mp3", "FLAC", "txt"}

\* The formats of the codec table (the if/elif chain on format.lower()).
SupportedFormats == {"mp3", "aac", "flac", "ogg", "m4a", "wav", "opus"}
Supported(fmt) == Lower(fmt) \in SupportedFormats

\* The file name <stem>.<fmt> (counter 0) or <stem>_<counter>.<fmt>, as the string the
\* file system sees: stem "a_1" without suffix and stem "a" with suffix 1 are one name.
OutName(stem, counter, fmt) ==
    IF counter = 0 /\ stem = "a_1"
    THEN [base |-> "a", n |-> 1, fmt |-> fmt]
    ELSE [base |-> stem, n |-> counter, fmt |-> fmt]

\* A conflict check that is an if, not a while: one suffix is tried, unchecked.
ResolveConflictsOnce(path, stem, counter, fmt) ==
    IF path \in outputDir THEN OutName(stem, counter, fmt) ELSE path

\* The conflict loop: while output_path.exists(), take the next counter.
RECURSIVE ResolveConflicts(_, _, _, _)
ResolveConflicts(path, stem, counter, fmt) ==
    IF path \in outputDir
    THEN ResolveConflicts(OutName(stem, counter, fmt), stem, counter + 1, fmt)
    ELSE path

\* All orders of the finite set S.
Orders(S) == { l \in DirListings(S, Cardinality(S)) : Len(l) = Cardinality(S) }

\* Path(wav_dir).glob(pattern), in any order the file system gives.
Glob(ext) == Orders({ n \in WavNames : n.ext = ext /\ Exists(wavDir, n) })

\* The directory check, the two globs and the early return on an empty list.
EncoderStart(wavDirExists, fmt) ==
    /\ CanStart
    /\ prog' = "encoder"
    /\ runs' = runs + 1
    /\ audio_files' = <<>>
    /\ format' = fmt
    /\ i' = 1
    /\ success_count' = 0
    /\ metadata' = None
    /\ output_path' = None
    /\ outcome' = <<>>
    /\ log' = <<>>
    /\ tool_missing' = FALSE
    /\ IF ~wavDirExists
       THEN /\ wav_files' = <<>>
            /\ pc' = "done"
            /\ ending' = "no_directory"
            /\ status' = 1
       ELSE \E lower \in Glob(".wav"), upper \in Glob(".WAV") :
               /\ wav_files' = lower \o upper
               /\ IF lower \o upper = <<>>
                  THEN /\ pc' = "done"
                       /\ ending' = "no_files"
                       /\ status' = 0
                  ELSE /\ pc' = "e_loop"
                       /\ ending' = "running"
                       /\ status' = 0
    /\ UNCHANGED <<wavDir, sidecarDir, outputDir, metaVars>>

\* load_metadata_file(): None when the sidecar is missing or does not parse.
load_metadata_file(wav_file) ==
    LET file == sidecarDir[wav_file.stem]
    IN IF file = None THEN None
       ELSE IF file[1].json = "truncated" THEN None
       ELSE file

\* build_metadata_args() reads the record with metadata.get(...): a record that is
\* no mapping raises AttributeError, which nothing in the Encoder catches.
BuildRaises(md) == md # None /\ md[1].json # "object"

\* Loop body up to the transcoder call: the output path, the sidecar, the metadata
\* arguments and the codec table.
EncoderPrepare ==
    /\ pc = "e_loop"
    /\ i <= Len(wav_files)
    /\ LET wav_file == wav_files[i]
           path == ResolveConflicts(OutName(wav_file.stem, 0, format), wav_file.stem,
                                    1, format)
           md == load_metadata_file(wav_file)
       IN /\ metadata' = md
          /\ output_path' = Some(path)
          /\ IF BuildRaises(md)
             THEN /\ pc' = "done"
                  /\ ending' = "traceback"
                  /\ status' = 1
                  /\ UNCHANGED <<i, outcome>>
             ELSE IF ~Supported(format)
             THEN /\ outcome' = Append(outcome, "Unsupported")
                  /\ i' = i + 1
                  /\ pc' = "e_loop"
                  /\ UNCHANGED <<ending, status>>
             ELSE /\ pc' = "e_run"
                  /\ UNCHANGED <<i, outcome, ending, status>>
    /\ log' = <<>>
    /\ UNCHANGED <<prog, runs, wavDir, sidecarDir, outputDir, audio_files, wav_files,
                   format, success_count, tool_missing, metaVars>>

\* subprocess.run(cmd): ffmpeg exits 0, exits non-zero, is not installed, or the call
\* raises something else.
EncodeResults == {"ok", "nonzero", "not_found", "exception"}

\* The transcoder call, with -y, writing output_path.
EncoderRun ==
    /\ pc = "e_run"
    /\ \E res \in EncodeResults :
          /\ log' = Append(log, Event("ffmpeg", res))
          /\ tool_missing' = (tool_missing \/ res = "not_found")
          /\ IF res = "not_found"
             THEN /\ pc' = "done"
                  /\ ending' = "tool_missing"
                  /\ status' = 1
                  /\ UNCHANGED <<outputDir, success_count, outcome, i>>
             ELSE /\ pc' = "e_loop"
                  /\ i' = i + 1
                  /\ UNCHANGED <<ending, status>>
                  /\ IF res = "ok"
                     THEN /\ outputDir' = outputDir \cup {output_path[1]}
                          /\ success_count' = success_count + 1
                          /\ outcome' = Append(outcome, "Converted")
                     ELSE /\ outcome' = Append(outcome, "Failed")
                          /\ UNCHANGED <<outputDir, success_count>>
    /\ UNCHANGED <<prog, runs, wavDir, sidecarDir, audio_files, wav_files, format,
                   metadata, output_path, metaVars>>

\* A summary without the final sys.exit(1).
EncoderFinish_AlwaysZero ==
    /\ pc = "e_loop"
    /\ i > Len(wav_files)
    /\ status' = 0
    /\ ending' = "report"
    /\ pc' = "done"
    /\ UNCHANGED <<prog, runs, wavDir, sidecarDir, outputDir, audio_files, wav_files,
                   format, i, success_count, metadata, output_path, outcome, log,
                   tool_missing, metaVars>>

\* The summary and sys.exit(1) when nothing was converted.
EncoderFinish ==
    /\ pc = "e_loop"
    /\ i > Len(wav_files)
    /\ status' = IF success_count = 0 THEN 1 ELSE 0
    /\ ending' = "report"
    /\ pc' = "done"
    /\ UNCHANGED <<prog, runs, wavDir, sidecarDir, outputDir, audio_files, wav_files,
                   format, i, success_count, metadata, output_path, outcome, log,
                   tool_missing, metaVars>>


(***************************************************************************)
(* helpers/metadata.py: build_metadata_args                                *)
(*                                                                         *)
(* A dict is a function from the keys it holds; dict.get gives an optional *)
(* value.  Every element of the argument list is a string, written as a    *)
(* sequence of characters; a fixed word such as "-metadata" or a tag key   *)
(* is one element of that sequence.                                        *)
(***************************************************************************)
Get(d, k) == IF k \in DOMAIN d THEN Some(d[k]) ELSE None

\* Python truth of an optional string: None and "" are false.
Truthy(o) == o # None /\ o[1] # <<>>

\* Python's  x or y  on optional strings.
Or(x, y) == IF Truthy(x) THEN x ELSE y

\* str.strip(): leading and trailing blanks removed.
RECURSIVE LStrip(_)
LStrip(str) == IF str # <<>> /\ Head(str) = " " THEN LStrip(Tail(str)) ELSE str
RECURSIVE RStrip(_)
RStrip(str) ==
    IF str # <<>> /\ str[Len(str)] = " " THEN RStrip(SubSeq(str, 1, Len(str) - 1)) ELSE str
Strip(str) == RStrip(LStrip(str))

Word(w) == <<w>>

\* A test for artwork that looks at the codec type alone.
IsVideoStream(stream) == stream.codec_type = Some("video")

\* any(stream.get("codec_type") == "video"
\*     and stream.get("disposition", {}).get("attached_pic") == 1 for stream in streams)
IsAttachedPic(stream) ==
    /\ stream.codec_type = Some("video")
    /\ LET disposition == IF stream.disposition = None THEN None ELSE stream.disposition[1]
       IN disposition = Some(1)
RECURSIVE has_artwork(_)
has_artwork(strs) ==
    IF strs = <<>> THEN FALSE
    ELSE IF IsAttachedPic(Head(strs)) THEN TRUE
    ELSE has_artwork(Tail(strs))

\* A metadata_fields in which album_artist falls back to ARTIST as artist falls back
\* to ALBUM_ARTIST.
metadata_fields_symmetric(t) ==
    << <<"title", Or(Get(t, "title"), Get(t, "TITLE"))>>,
       <<"artist", Or(Or(Or(Get(t, "artist"), Get(t, "ARTIST")), Get(t, "album_artist")),
                      Get(t, "ALBUM_ARTIST"))>>,
       <<"album", Or(Get(t, "album"), Get(t, "ALBUM"))>>,
       <<"date", Or(Or(Get(t, "date"), Get(t, "DATE")), Get(t, "year"))>>,
       <<"genre", Or(Get(t, "genre"), Get(t, "GENRE"))>>,
       <<"track", Or(Get(t, "track"), Get(t, "TRACK"))>>,
       <<"album_artist", Or(Or(Or(Get(t, "album_artist"), Get(t, "ALBUM_ARTIST")),
                               Get(t, "artist")), Get(t, "ARTIST"))>>,
       <<"composer", Or(Get(t, "composer"), Get(t, "COMPOSER"))>>,
       <<"comment", Or(Get(t, "comment"), Get(t, "COMMENT"))>> >>

\* The metadata_fields dict, in insertion order, as <<key, value>> pairs.
metadata_fields(t) ==
    << <<"title", Or(Get(t, "title"), Get(t, "TITLE"))>>,
       <<"artist", Or(Or(Or(Get(t, "artist"), Get(t, "ARTIST")), Get(t, "album_artist")),
                      Get(t, "ALBUM_ARTIST"))>>,
       <<"album", Or(Get(t, "album"), Get(t, "ALBUM"))>>,
       <<"date", Or(Or(Get(t, "date"), Get(t, "DATE")), Get(t, "year"))>>,
       <<"genre", Or(Get(t, "genre"), Get(t, "GENRE"))>>,
       <<"track", Or(Get(t, "track"), Get(t, "TRACK"))>>,
       <<"album_artist", Or(Or(Get(t, "album_artist"), Get(t, "ALBUM_ARTIST")),
                            Get(t, "artist"))>>,
       <<"composer", Or(Get(t, "composer"), Get(t, "COMPOSER"))>>,
       <<"comment", Or(Get(t, "comment"), Get(t, "COMMENT"))>> >>

\* The final loop: "-metadata", f"{key}={value}" for every value that is set and
\* not blank.
RECURSIVE TagArgs(_)
TagArgs(fields) ==
    IF fields = <<>> THEN <<>>
    ELSE LET key == Head(fields)[1]
             value == Head(fields)[2]
         IN (IF Truthy(value) /\ Strip(value[1]) # <<>>
             THEN <<Word("-metadata"), <<key, "=">> \o value[1]>>
             ELSE <<>>) \o TagArgs(Tail(fields))

\* The artwork branch.
ArtworkArgs(strs, original_file_path) ==
    IF has_artwork(strs) /\ original_file_path # None
    THEN <<Word("-i"), Word(original_file_path[1]), Word("-map"), Word("0:a"),
           Word("-map"), Word("1:v?"), Word("-c:v"), Word("copy"),
           Word("-disposition:v:0"), Word("attached_pic")>>
    ELSE <<>>

build_metadata_args(md, original_file_path) ==
    IF md = None THEN <<>>
    ELSE LET format_meta == IF md[1].format = None THEN [tags |-> None] ELSE md[1].format[1]
             t == IF format_meta.tags = None THEN <<>> ELSE format_meta.tags[1]
             strs == IF md[1].streams = None THEN <<>> ELSE md[1].streams[1]
         IN ArtworkArgs(strs, original_file_path) \o TagArgs(metadata_fields(t))

\* The inputs build_metadata_args is applied to.
SourceKeys ==
    { "title", "TITLE", "artist", "ARTIST", "album", "ALBUM", "date", "DATE", "year",
      "genre", "GENRE", "track", "TRACK", "album_artist", "ALBUM_ARTIST", "composer",
      "COMPOSER", "comment", "COMMENT", "encoder" }

\* A tag value: the empty string, a blank, or a text that tells which key held it.
TagValue(k, c) == CASE c = 0 -> <<>> [] c = 1 -> <<" ">> [] OTHER -> <<" ", k>>

RECURSIVE KeySets(_)
KeySets(n) ==
    IF n = 0 THEN { {} }
    ELSE LET smaller == KeySets(n - 1)
         IN smaller \cup { K \cup {k} : K \in smaller, k \in SourceKeys }

TagDicts ==
    UNION { { [k \in K |-> TagValue(k, c[k])] : c \in [K -> 0..2] } : K \in KeySets(MaxTags) }

Stream(type, disposition) == [codec_type |-> type, disposition |-> disposition]
AudioStream == Stream(Some("audio"), Some(Some(0)))
CoverStream == Stream(Some("video"), Some(Some(1)))
VideoStream == Stream(Some("video"), Some(Some(0)))
StreamLists ==
    { <<>>,
      <<AudioStream, CoverStream>>,
      <<AudioStream, VideoStream>>,
      <<Stream(Some("video"), None), Stream(Some("audio"), Some(Some(1))),
        Stream(None, Some(Some(1))), Stream(Some("video"), Some(None))>> }

Record(fmt, strs) == [format |-> fmt, streams |-> strs]
Records ==
    { Record(Some([tags |-> Some(t)]), Some(s)) : t \in TagDicts, s \in StreamLists }
    \cup { Record(None, Some(s)) : s \in StreamLists }
    \cup { Record(Some([tags |-> None]), None) }

OriginalPaths == { None, Some("source/a.mp3") }

Build ==
    /\ ~built
    /\ args' = build_metadata_args(record, original)
    /\ built' = TRUE
    /\ UNCHANGED <<record, original, pipeVars>>

(***************************************************************************)
(* Specifications                                                          *)
(***************************************************************************)
NoRun ==
    /\ pc = "idle"
    /\ prog = "none"
    /\ runs = 0
    /\ audio_files = <<>>
    /\ wav_files = <<>>
    /\ format = ""
    /\ i = 1
    /\ success_count = 0
    /\ metadata = None
    /\ output_path = None
    /\ outcome = <<>>
    /\ log = <<>>
    /\ tool_missing = FALSE
    /\ ending = "running"
    /\ status = 0

NoMeta ==
    /\ record = None
    /\ original = None
    /\ args = <<>>
    /\ built = FALSE

\* Both stages, any number of times in any order, from empty directories.
Init ==
    /\ NoRun
    /\ NoMeta
    /\ wavDir = [n \in WavNames |-> None]
    /\ sidecarDir = [s \in Stems |-> None]
    /\ outputDir = {}

\* The process ends: what it held in memory is gone, the directories stay.
Exit ==
    /\ pc = "done"
    /\ pc' = "idle"
    /\ prog' = "none"
    /\ audio_files' = <<>>
    /\ wav_files' = <<>>
    /\ format' = ""
    /\ i' = 1
    /\ success_count' = 0
    /\ metadata' = None
    /\ output_path' = None
    /\ outcome' = <<>>
    /\ log' = <<>>
    /\ tool_missing' = FALSE
    /\ ending' = "running"
    /\ status' = 0
    /\ UNCHANGED <<runs, wavDir, sidecarDir, outputDir, metaVars>>

NormalizerNext ==
    \/ \E sourceExists \in BOOLEAN, listing \in DirListings(SourceEntries, MaxFiles) :
          NormalizerStart(sourceExists, listing)
    \/ NormalizerCheck
    \/ Extract
    \/ Save
    \/ Process
    \/ NormalizerFinish

EncoderNext ==
    \/ \E wavDirExists \in BOOLEAN, fmt \in Formats : EncoderStart(wavDirExists, fmt)
    \/ EncoderPrepare
    \/ EncoderRun
    \/ EncoderFinish

Next == NormalizerNext \/ EncoderNext \/ Exit

Spec == Init /\ [][Next]_vars

\* The Encoder alone, run on any intermediate directory and any output directory.
Placed(n) == Some(Entry(n.stem, n.ext, TRUE))
SidecarFiles(stem) ==
    { None } \cup { Some(Json(kind, Entry(stem, ".mp3", TRUE))) :
                       kind \in {"object", "array", "truncated"} }
OldOutputs == { OutName("a", 0, "mp3"), OutName("a", 1, "mp3"), OutName("a", 0, "FLAC") }

InitEncoder ==
    /\ NoRun
    /\ NoMeta
    /\ wavDir \in { [n \in WavNames |-> IF n \in P THEN Placed(n) ELSE None] :
                      P \in { Q \in SUBSET WavNames : Cardinality(Q) <= MaxFiles } }
    /\ sidecarDir \in { [s \in Stems |-> c[s]] :
                          c \in [Stems -> UNION { SidecarFiles(s) : s \in Stems }] }
    /\ \A s \in Stems : sidecarDir[s] \in SidecarFiles(s)
    /\ outputDir \in SUBSET OldOutputs

SpecEncoder == InitEncoder /\ [][EncoderNext \/ Exit]_vars

\* build_metadata_args alone, applied to any record and any artwork source.
InitMeta ==
    /\ NoRun
    /\ wavDir = [n \in WavNames |-> None]
    /\ sidecarDir = [s \in Stems |-> None]
    /\ outputDir = {}
    /\ record \in { None } \cup { Some(r) : r \in Records }
    /\ original \in OriginalPaths
    /\ args = <<>>
    /\ built = FALSE

SpecMeta == InitMeta /\ [][Build]_vars

(***************************************************************************)
(* Properties of the two stages                                            *)
(***************************************************************************)
\* Positions of the log holding a call of one of the given kinds.
Calls(ops) == { k \in DOMAIN log : log[k].op \in ops }

\* The Stage 1 candidate the log belongs to: once its copy or transcode has been
\* made the loop index has moved on.
Handled == IF Calls({"ffmpeg", "copy"}) # {} THEN audio_files[i - 1] ELSE audio_files[i]

ProbeGaveRecord == log # <<>> /\ log[1].op = "ffprobe" /\ log[1].res \in {"object", "array"}

\* C1 as stated: every candidate that is copied or transcoded has had exactly one
\* sidecar write, made before that call, whatever the probe answered.
C1_SidecarForEveryProbeOutcome ==
    prog = "normalizer" =>
        \A k \in Calls({"ffmpeg", "copy"}) :
            /\ Cardinality(Calls({"write_sidecar"})) = 1
            /\ \A w \in Calls({"write_sidecar"}) : w < k

\* C1 amended: a candidate that is copied or transcoded was probed first; if the
\* probe gave a record, exactly one sidecar write was made, before the copy or
\* transcode, and a write that succeeded has left that record in <stem>.metadata.json,
\* also when the copy or transcode fails; if the probe gave no record, no sidecar
\* write was made.
C1_SidecarBeforeTranscode ==
    prog = "normalizer" =>
        \A k \in Calls({"ffmpeg", "copy"}) :
            /\ Calls({"ffprobe"}) = {1}
            /\ k = Len(log)
            /\ ProbeGaveRecord <=> metadata # None
            /\ ProbeGaveRecord =>
                  /\ Cardinality(Calls({"write_sidecar"})) = 1
                  /\ \A w \in Calls({"write_sidecar"}) :
                        /\ w < k
                        /\ log[w].res = "ok" =>
                              /\ sidecarDir[Handled.stem] = metadata
                              /\ metadata[1].src = Handled
            /\ ~ProbeGaveRecord => Calls({"write_sidecar"}) = {}

\* A transcode that failed after the sidecar of the same candidate was written.
C1_Witness ==
    /\ prog = "normalizer"
    /\ Len(log) = 3
    /\ log[2] = Event("write_sidecar", "ok")
    /\ log[3] = Event("ffmpeg", "nonzero")
    /\ sidecarDir[Handled.stem] = Some(Json("object", Handled))

\* C2: the path handed to the transcoder is not the name of an existing file of the
\* output directory; it is <stem>.<format> if that name is free, else
\* <stem>_<k>.<format> for the smallest k >= 1 that is free.
C2_NoOverwrite ==
    pc = "e_run" =>
        LET stem == wav_files[i].stem
            free == { k \in 0..(Cardinality(outputDir) + 1) :
                        OutName(stem, k, format) \notin outputDir }
        IN /\ output_path # None
           /\ output_path[1] \notin outputDir
           /\ \E k \in free :
                 /\ output_path[1] = OutName(stem, k, format)
                 /\ \A j \in free : k <= j

\* track.wav and track.WAV in one run: the second is given a suffix because the
\* first has produced its output.
C2_Witness ==
    /\ pc = "e_run"
    /\ i = 2
    /\ wav_files[1] = WavName("a", ".wav")
    /\ wav_files[2] = WavName("a", ".WAV")
    /\ outcome = <<"Converted">>
    /\ output_path[1].n >= 1

\* The Stage 1 loop is at a candidate whose destination exists.
AtExistingDestination ==
    /\ pc = "n_loop"
    /\ i <= Len(audio_files)
    /\ Exists(wavDir, output_file)

\* C5: a candidate whose destination <stem>.wav exists is Skipped: no call is made
\* for it (no probe, no sidecar write, no copy, no transcode), the intermediate
\* directory is left as it is, and the candidate is counted as a success.
C5_SkipExisting ==
    [][AtExistingDestination =>
          /\ log' = <<>>
          /\ wavDir' = wavDir
          /\ sidecarDir' = sidecarDir
          /\ outcome' = Append(outcome, "Skipped")
          /\ success_count' = success_count + 1
          /\ i' = i + 1
          /\ pc' = "n_loop"]_vars

\* A candidate was just skipped while a sidecar for its stem exists.
C5_Witness ==
    /\ prog = "normalizer"
    /\ pc = "n_loop"
    /\ outcome # <<>>
    /\ outcome[Len(outcome)] = "Skipped"
    /\ sidecarDir[audio_files[i - 1].stem] # None
    /\ success_count = Len(outcome)

NumCandidates == IF prog = "normalizer" THEN Len(audio_files) ELSE Len(wav_files)

InputDirectoryPresent == ending # "no_directory"

\* C6 as stated, for the runs that do not end in an uncaught exception: with the
\* input directory present the exit status is non-zero iff there are candidates and
\* the success count is zero; a missing input directory gives status 1.
C6_NonZeroIffNoSuccess ==
    (pc = "done" /\ ending # "traceback") =>
        /\ InputDirectoryPresent =>
              (status # 0 <=> (NumCandidates > 0 /\ success_count = 0))
        /\ ~InputDirectoryPresent => status = 1

Successes == { k \in DOMAIN outcome : outcome[k] \in {"Skipped", "Copied", "Converted"} }

\* C6 amended: a missing input directory gives status 1; an empty candidate set
\* gives status 0; a run that reaches its summary has reached every candidate, its
\* success count is the number of candidates skipped (Stage 1), copied or converted,
\* and its status is non-zero iff that count is zero; a Stage 2 run cut short before
\* the summary (transcoder not found, or an uncaught exception) has status 1 whatever
\* its success count; a Stage 1 run is never cut short.
C6_ExitStatus ==
    pc = "done" =>
        /\ success_count = Cardinality(Successes)
        /\ ending \in {"no_directory", "no_files", "report", "tool_missing", "traceback"}
        /\ ending = "no_directory" => status = 1
        /\ ending = "no_files" => (status = 0 /\ NumCandidates = 0)
        /\ ending = "report" =>
              /\ NumCandidates > 0
              /\ Len(outcome) = NumCandidates
              /\ status \in {0, 1}
              /\ status # 0 <=> success_count = 0
        /\ ending \in {"tool_missing", "traceback"} =>
              (prog = "encoder" /\ status = 1 /\ Len(outcome) < NumCandidates)

\* A Stage 2 run that converted a file and then found no transcoder.
C6_Witness ==
    /\ pc = "done"
    /\ prog = "encoder"
    /\ ending = "tool_missing"
    /\ success_count > 0
    /\ status = 1

\* C7: after a transcoder call of a Stage 1 run has found no transcoder, no further
\* call (probe, sidecar write, copy, transcode) is made in that run; in Stage 2 the
\* process is over, with status 1.
C7_AbortOnToolMissing ==
    tool_missing =>
        /\ prog = "normalizer" =>
              (log = <<>> \/ log[Len(log)] = Event("ffmpeg", "not_found"))
        /\ prog = "encoder" => (pc = "done" /\ status = 1)

\* C8: a Stage 2 run with the input directory present and the transcoder found at
\* every call ends with the summary, every candidate having reached an outcome.
C8_BatchContinues ==
    (prog = "encoder" /\ pc = "done" /\ InputDirectoryPresent /\ ~tool_missing) =>
        /\ ending \in {"no_files", "report"}
        /\ Len(outcome) = Len(wav_files)

\* C9 as stated: a sidecar that exists is never changed or removed.
C9_WrittenOnce ==
    [][\A s \in Stems : sidecarDir[s] # None => sidecarDir'[s] = sidecarDir[s]]_vars

\* C9 amended: <stem>.metadata.json changes only when Stage 1 saves the record of a
\* candidate of that stem whose destination <stem>.wav does not exist; so it is never
\* deleted, never changed by Stage 2 and never changed once <stem>.wav exists.
C9_SidecarLifecycle ==
    [][\A s \in Stems :
          sidecarDir'[s] # sidecarDir[s] =>
              /\ prog = "normalizer"
              /\ pc = "n_save"
              /\ audio_files[i].stem = s
              /\ ~Exists(wavDir, WavName(s, ".wav"))
              /\ sidecarDir'[s] # None]_vars

\* Stage 1 is about to save a record over the different sidecar an earlier candidate
\* of the same stem left.
C9_Witness ==
    /\ prog = "normalizer"
    /\ pc = "n_save"
    /\ metadata # None
    /\ sidecarDir[audio_files[i].stem] # None
    /\ sidecarDir[audio_files[i].stem][1].src # metadata[1].src

\* C10: whenever <stem>.wav and <stem>.metadata.json both exist, the sidecar holds
\* the record probed from the source that <stem>.wav was made from.
C10_SidecarCorrespondence ==
    \A s \in Stems :
        (Exists(wavDir, WavName(s, ".wav")) /\ sidecarDir[s] # None) =>
            sidecarDir[s][1].src = wavDir[WavName(s, ".wav")][1]

(***************************************************************************)
(* Properties of build_metadata_args                                       *)
(***************************************************************************)
\* The tags and the streams of the record the function was applied to.
RecordTags ==
    IF record = None \/ record[1].format = None \/ record[1].format[1].tags = None
    THEN <<>>
    ELSE record[1].format[1].tags[1]
RecordStreams ==
    IF record = None \/ record[1].streams = None THEN <<>> ELSE record[1].streams[1]

ArtworkDirectives(path) ==
    << <<"-i">>, <<path>>, <<"-map">>, <<"0:a">>, <<"-map">>, <<"1:v?">>, <<"-c:v">>,
       <<"copy">>, <<"-disposition:v:0">>, <<"attached_pic">> >>
ArtworkWords ==
    { <<"-i">>, <<"-map">>, <<"0:a">>, <<"1:v?">>, <<"-c:v">>, <<"copy">>,
      <<"-disposition:v:0">>, <<"attached_pic">> }

\* The record has a video stream marked as an attached picture, and an artwork
\* source is given.
ArtworkExpected ==
    /\ \E k \in DOMAIN RecordStreams :
          /\ RecordStreams[k].codec_type = <<"video">>
          /\ RecordStreams[k].disposition = << <<1>> >>
    /\ original # None

\* The returned list without its artwork directives.
TagPart == IF ArtworkExpected THEN SubSeq(args, 11, Len(args)) ELSE args

\* C3: the artwork directives are emitted iff the record has a video stream marked
\* as an attached picture and an artwork source is given, and the tag directives are
\* those emitted for the same record without an artwork source.
C3_ArtworkIff ==
    built =>
        /\ ArtworkExpected =>
              /\ Len(args) >= 10
              /\ SubSeq(args, 1, 10) = ArtworkDirectives(original[1])
        /\ ~ArtworkExpected => \A k \in DOMAIN args : args[k] \notin ArtworkWords
        /\ \A k \in DOMAIN TagPart : TagPart[k] \notin ArtworkWords
        /\ TagPart = build_metadata_args(record, None)

\* Artwork directives followed by tag directives.
C3_Witness ==
    /\ built
    /\ ArtworkExpected
    /\ Len(args) > 10

OutputKeys ==
    <<"title", "artist", "album", "date", "genre", "track", "album_artist", "composer",
      "comment">>

Range(seq) == { seq[k] : k \in DOMAIN seq }

Upper(key) ==
    CASE key = "title" -> "TITLE"
      [] key = "artist" -> "ARTIST"
      [] key = "album" -> "ALBUM"
      [] key = "date" -> "DATE"
      [] key = "genre" -> "GENRE"
      [] key = "track" -> "TRACK"
      [] key = "album_artist" -> "ALBUM_ARTIST"
      [] key = "composer" -> "COMPOSER"
      [] key = "comment" -> "COMMENT"

NonBlank(str) == \E k \in DOMAIN str : str[k] # " "

\* The directives for the keys, in order, given each key's resolved value.
RECURSIVE Directives(_, _)
Directives(keys, resolved) ==
    IF keys = <<>> THEN <<>>
    ELSE LET key == Head(keys)
             value == resolved[key]
         IN (IF value # None /\ NonBlank(value[1])
             THEN << <<"-metadata">>, <<key, "=">> \o value[1] >>
             ELSE <<>>) \o Directives(Tail(keys), resolved)

RECURSIVE FirstNonEmpty(_)
FirstNonEmpty(chain) ==
    IF chain = <<>> THEN None
    ELSE IF Head(chain) \in DOMAIN RecordTags /\ Len(RecordTags[Head(chain)]) > 0
    THEN <<RecordTags[Head(chain)]>>
    ELSE FirstNonEmpty(Tail(chain))

\* The chains of C4 as stated, read in the code's favour where the words leave a
\* choice (a tag that is present but empty counts as not present; "the other of the
\* two" is album_artist, ALBUM_ARTIST for artist and artist for album_artist): the
\* lower-case tag, its upper-case variant, for artist and album_artist the other of
\* the two, and no other tag.
ClaimedChain(key) ==
    CASE key = "artist" -> <<"artist", "ARTIST", "album_artist", "ALBUM_ARTIST">>
      [] key = "album_artist" -> <<"album_artist", "ALBUM_ARTIST", "artist">>
      [] OTHER -> <<key, Upper(key)>>

ClaimedValue == [key \in Range(OutputKeys) |-> FirstNonEmpty(ClaimedChain(key))]

\* C4 as stated: one directive per key, in the fixed order, for each key whose value
\* is not blank, the value being the first one found in the key's chain.
C4_NoOtherSourceTag ==
    (built /\ record # None) => TagPart = Directives(OutputKeys, ClaimedValue)

\* The chains the directives follow.
TagChain(key) ==
    CASE key = "artist" -> <<"artist", "ARTIST", "album_artist", "ALBUM_ARTIST">>
      [] key = "album_artist" -> <<"album_artist", "ALBUM_ARTIST", "artist">>
      [] key = "date" -> <<"date", "DATE", "year">>
      [] OTHER -> <<key, Upper(key)>>

ResolvedValue == [key \in Range(OutputKeys) |-> FirstNonEmpty(TagChain(key))]

\* C4 amended: one directive key=value per key, in the fixed order, for each key
\* whose resolved value is not blank, the resolved value being the first non-empty
\* value (date falling back to the tag year as well) among  title, TITLE / artist, ARTIST, album_artist, ALBUM_ARTIST /
\* album, ALBUM / date, DATE, year / genre, GENRE / track, TRACK /
\* album_artist, ALBUM_ARTIST, artist / composer, COMPOSER / comment, COMMENT ;
\* no other tag is consulted.
C4_TagChains ==
    built =>
        /\ record = None => args = <<>>
        /\ record # None => TagPart = Directives(OutputKeys, ResolvedValue)

\* The date is taken from the tag year, and album_artist from artist.
C4_Witness ==
    /\ built
    /\ DOMAIN RecordTags = {"year", "artist"}
    /\ TagPart = << <<"-metadata">>, <<"artist", "=", " ", "artist">>,
                    <<"-metadata">>, <<"date", "=", " ", "year">>,
                    <<"-metadata">>, <<"album_artist", "=", " ", "artist">> >>

====
